---------------------------- MODULE Spec2Model ----------------------------
(***************************************************************************)
(* Model of cf_dns_manager.py: an interactive menu that lists, adds,       *)
(* updates and deletes the DNS records of one Cloudflare zone.             *)
(*                                                                         *)
(* Text (user input, record fields, ids) is a sequence of one-character    *)
(* strings, so that str.lower(), str.upper(), int() and the truth value    *)
(* of a string are computed character by character as Python does.         *)
(* One step of the model is one of: the credential check of main(), the    *)
(* zone lookup, the menu prompt, or one whole branch of the menu loop.     *)
(* The variables prompts, requests, responses and printed record what the  *)
(* current loop iteration asked, sent, received and printed.               *)
(***************************************************************************)
EXTENDS Integers, Sequences, FiniteSets, TLC

VARIABLES CF_EMAIL, CF_API_KEY, CF_DOMAIN,
          pc, exit_code, zone_id, records, choice,
          prompts, requests, responses, printed

vars == <<CF_EMAIL, CF_API_KEY, CF_DOMAIN, pc, exit_code, zone_id, records,
          choice, prompts, requests, responses, printed>>

(***************************************************************************)
(* Bounds of the model.                                                    *)
(***************************************************************************)
MaxRecords == 2
MaxZones == 2

(***************************************************************************)
(* Text.                                                                   *)
(***************************************************************************)
S_empty == <<>>
S_yes == <<"y", "e", "s">>
S_MX == <<"M", "X">>

UpperCase == <<"A", "C", "E", "M", "N", "O", "S", "X", "Y">>
LowerCase == <<"a", "c", "e", "m", "n", "o", "s", "x", "y">>
Digits == <<"0", "1", "2", "3", "4", "5", "6", "7", "8", "9">>

IndexIn(c, alphabet) ==
    IF \E i \in 1..Len(alphabet) : alphabet[i] = c
    THEN CHOOSE i \in 1..Len(alphabet) : alphabet[i] = c
    ELSE 0

lowerChar(c) == IF IndexIn(c, UpperCase) # 0 THEN LowerCase[IndexIn(c, UpperCase)] ELSE c
upperChar(c) == IF IndexIn(c, LowerCase) # 0 THEN UpperCase[IndexIn(c, LowerCase)] ELSE c

lower(s) == [i \in 1..Len(s) |-> lowerChar(s[i])]
upper(s) == [i \in 1..Len(s) |-> upperChar(s[i])]

\* The truth value Python gives a str: false exactly for the empty string.
truthy(s) == s # S_empty

\* Python's `a or b` on strings.
or_default(a, b) == IF truthy(a) THEN a ELSE b

IsDigit(c) == IndexIn(c, Digits) # 0
DigitVal(c) == IndexIn(c, Digits) - 1

RECURSIVE lstrip(_)
lstrip(s) == IF s # <<>> /\ Head(s) = " " THEN lstrip(Tail(s)) ELSE s

RECURSIVE rstrip(_)
rstrip(s) == IF s # <<>> /\ s[Len(s)] = " " THEN rstrip(SubSeq(s, 1, Len(s) - 1)) ELSE s

strip(s) == rstrip(lstrip(s))

HasSign(s) == s # <<>> /\ Head(s) \in {"+", "-"}
Unsigned(s) == IF HasSign(s) THEN Tail(s) ELSE s

RECURSIVE DecimalVal(_)
DecimalVal(s) == IF s = <<>> THEN 0
                 ELSE 10 * DecimalVal(SubSeq(s, 1, Len(s) - 1)) + DigitVal(s[Len(s)])

\* int(s) raises ValueError unless s is, after stripping blanks, an optional
\* sign followed by at least one decimal digit.
int_ok(s) ==
    LET u == Unsigned(strip(s))
    IN  u # <<>> /\ \A i \in 1..Len(u) : IsDigit(u[i])

int_val(s) ==
    LET t == strip(s)
        v == DecimalVal(Unsigned(t))
    IN  IF HasSign(t) /\ Head(t) = "-" THEN 0 - v ELSE v

(***************************************************************************)
(* The provider: what a GET of the zone's records may answer.              *)
(***************************************************************************)
RecordPool ==
    { [id |-> <<"r", "1">>, type |-> <<"A">>, name |-> <<"w">>,
       content |-> <<"1", ".", "2">>, ttl |-> 1, proxied |-> TRUE],
      [id |-> <<"r", "1">>, type |-> <<"A">>, name |-> <<"w">>,
       content |-> <<"3", ".", "4">>, ttl |-> 1, proxied |-> TRUE],
      [id |-> <<"r", "2">>, type |-> S_MX, name |-> <<"m">>,
       content |-> <<"m", "x">>, ttl |-> 300, priority |-> 10, proxied |-> FALSE],
      [id |-> <<"r", "3">>, type |-> S_MX, name |-> <<"m">>,
       content |-> <<"m", "x">>, ttl |-> 60, priority |-> 0, proxied |-> FALSE],
      [id |-> <<"r", "4">>, type |-> <<"S">>, name |-> <<"s">>,
       content |-> <<"s">>, ttl |-> 1, priority |-> 5, proxied |-> FALSE] }

RECURSIVE SeqsUpTo(_, _)
SeqsUpTo(S, n) ==
    IF n = 0 THEN {<<>>}
    ELSE LET shorter == SeqsUpTo(S, n - 1)
         IN  shorter \cup {Append(s, x) : s \in shorter, x \in S}

\* Record ids are unique within a zone.
Snapshots ==
    {s \in SeqsUpTo(RecordPool, MaxRecords) :
        \A i, j \in 1..Len(s) : i # j => s[i].id # s[j].id}

ZoneIds == {<<"z", "1">>, <<"z", "2">>}

ZoneLists ==
    {s \in SeqsUpTo([id : ZoneIds], MaxZones) :
        \A i, j \in 1..Len(s) : i # j => s[i].id # s[j].id}

\* Outcome of an HTTP call: a 2xx answer, an error status (raise_for_status
\* raises HTTPError carrying the response), or no response at all
\* (ConnectionError, Timeout: the exception's response is None).
ZoneResponses ==
    {[kind |-> "ok", result |-> z] : z \in ZoneLists}
        \cup {[kind |-> "http_error"], [kind |-> "no_response"]}

ListResponses ==
    {[kind |-> "ok", result |-> s] : s \in Snapshots}
        \cup {[kind |-> "http_error"], [kind |-> "no_response"]}

\* An error status carries a JSON body with an "errors" list, which may be empty.
WriteResponses ==
    { [kind |-> "ok"],
      [kind |-> "http_error", errors |-> <<"invalid">>],
      [kind |-> "http_error", errors |-> <<>>],
      [kind |-> "no_response"] }

raises_RequestException(resp) == resp.kind # "ok"

(***************************************************************************)
(* Outcome of one function call: what it asked, sent, received and         *)
(* printed, and how it ended: "return", or "raise" for an exception no     *)
(* handler catches, or "exit" for sys.exit.                                *)
(***************************************************************************)
Effect(p, q, a, m, how) ==
    [prompts |-> p, requests |-> q, responses |-> a, printed |-> m, outcome |-> how]

Asked(what, answer) == [prompt |-> what, answer |-> answer]

(***************************************************************************)
(* HTTP requests, as the functions build them.                             *)
(***************************************************************************)
ZonesRequest == [method |-> "GET", path |-> "zones"]
RecordsRequest(zid) == [method |-> "GET", path |-> "dns_records", zone |-> zid]
PostRequest(zid, data) ==
    [method |-> "POST", path |-> "dns_records", zone |-> zid, body |-> data]
PutRequest(zid, rid, data) ==
    [method |-> "PUT", path |-> "dns_records", zone |-> zid, id |-> rid, body |-> data]
DeleteRequest(zid, rid) ==
    [method |-> "DELETE", path |-> "dns_records", zone |-> zid, id |-> rid]

(***************************************************************************)
(* get_zone_id: the zone id is the first result's id; an empty result and  *)
(* a failed request both end in sys.exit(1).                               *)
(***************************************************************************)
zone_found(resp) == resp.kind = "ok" /\ resp.result # <<>>

get_zone_id(resp) ==
    IF raises_RequestException(resp)
    THEN [value |-> <<>>,
          eff |-> Effect(<<>>, <<ZonesRequest>>, <<resp>>, <<"API Request Error">>, "exit")]
    ELSE IF zone_found(resp)
    THEN [value |-> resp.result[1].id,
          eff |-> Effect(<<>>, <<ZonesRequest>>, <<resp>>, <<>>, "return")]
    ELSE [value |-> <<>>,
          eff |-> Effect(<<>>, <<ZonesRequest>>, <<resp>>, <<"Domain not found">>, "exit")]

\* Variant: a failed fetch ends the process as a failed zone lookup does.
get_dns_records_fatal(zid, resp) ==
    IF raises_RequestException(resp)
    THEN [value |-> <<>>,
          eff |-> Effect(<<>>, <<RecordsRequest(zid)>>, <<resp>>,
                         <<"API Request Error">>, "exit")]
    ELSE [value |-> resp.result,
          eff |-> Effect(<<>>, <<RecordsRequest(zid)>>, <<resp>>, <<>>, "return")]

(***************************************************************************)
(* get_dns_records: the result list, or [] after printing the error.       *)
(***************************************************************************)
get_dns_records(zid, resp) ==
    IF raises_RequestException(resp)
    THEN [value |-> <<>>,
          eff |-> Effect(<<>>, <<RecordsRequest(zid)>>, <<resp>>,
                         <<"API Request Error">>, "return")]
    ELSE [value |-> resp.result,
          eff |-> Effect(<<>>, <<RecordsRequest(zid)>>, <<resp>>, <<>>, "return")]

display_dns_records(recs) == Effect(<<>>, <<>>, <<>>, <<"table">>, "return")

\* Sequential composition: what e did, then what f did.
Then(e, f) ==
    Effect(e.prompts \o f.prompts, e.requests \o f.requests,
           e.responses \o f.responses, e.printed \o f.printed, f.outcome)

(***************************************************************************)
(* The except clause of add_dns_record and update_dns_record reads         *)
(* e.response.json()["errors"][0]["message"]: with no response, or with an  *)
(* empty error list, that expression itself raises and nothing catches it. *)
(***************************************************************************)
error_message_readable(resp) ==
    resp.kind = "http_error" /\ resp.errors # <<>>

\* Variant: a failed write is sent once more before it is reported.
write_outcome_retry(req, resp, ok_msg, err_msg) ==
    IF ~raises_RequestException(resp)
    THEN Effect(<<>>, <<req>>, <<resp>>, <<ok_msg>>, "return")
    ELSE IF error_message_readable(resp)
    THEN Effect(<<>>, <<req, req>>, <<resp, resp>>, <<err_msg>>, "return")
    ELSE Effect(<<>>, <<req, req>>, <<resp, resp>>, <<>>, "raise")

write_outcome(req, resp, ok_msg, err_msg) ==
    IF ~raises_RequestException(resp)
    THEN Effect(<<>>, <<req>>, <<resp>>, <<ok_msg>>, "return")
    ELSE IF error_message_readable(resp)
    THEN Effect(<<>>, <<req>>, <<resp>>, <<err_msg>>, "return")
    ELSE Effect(<<>>, <<req>>, <<resp>>, <<>>, "raise")

\* The except clause of delete_dns_record prints the exception itself.
delete_outcome(req, resp) ==
    IF ~raises_RequestException(resp)
    THEN Effect(<<>>, <<req>>, <<resp>>, <<"Successfully deleted">>, "return")
    ELSE Effect(<<>>, <<req>>, <<resp>>, <<"Error deleting">>, "return")

(***************************************************************************)
(* add_dns_record.  in: the answers the user would give to the prompts.    *)
(***************************************************************************)
add_ttl(ttl_str) == IF truthy(ttl_str) THEN int_val(ttl_str) ELSE 1

\* Variant: the upper-cased type compared with 'mx'.
add_asks_priority_lowercase(record_type) == record_type = <<"m", "x">>

add_asks_priority(record_type) == record_type = S_MX

add_proxied(proxied_input) == lower(proxied_input) = S_yes

add_dns_record(zid, in, resp) ==
    LET record_type == upper(in.type)
        p1 == << Asked("type", in.type), Asked("name", in.name),
                 Asked("content", in.content), Asked("ttl", in.ttl) >>
    IN  IF truthy(in.ttl) /\ ~int_ok(in.ttl)
        THEN Effect(p1, <<>>, <<>>, <<>>, "raise")
        ELSE
        LET data0 == [type |-> record_type, name |-> in.name,
                      content |-> in.content, ttl |-> add_ttl(in.ttl)]
            mx == add_asks_priority(record_type)
            p2 == IF mx THEN Append(p1, Asked("priority", in.priority)) ELSE p1
        IN  IF mx /\ ~int_ok(in.priority)
            THEN Effect(p2, <<>>, <<>>, <<>>, "raise")
            ELSE
            LET data1 == IF mx THEN data0 @@ [priority |-> int_val(in.priority)]
                         ELSE data0
                data == data1 @@ [proxied |-> add_proxied(in.proxy)]
                p3 == Append(p2, Asked("proxy", in.proxy))
            IN  Then(Effect(p3, <<>>, <<>>, <<>>, "return"),
                     write_outcome(PostRequest(zid, data), resp,
                                   "Successfully added", "Error adding"))

(***************************************************************************)
(* update_dns_record.                                                      *)
(***************************************************************************)
\* Variant: the lookup falls back to the first record instead of None.
find_record_or_first(recs, record_id) ==
    IF \E i \in 1..Len(recs) : recs[i].id = record_id
    THEN CHOOSE i \in 1..Len(recs) :
            /\ recs[i].id = record_id
            /\ \A j \in 1..(i - 1) : recs[j].id # record_id
    ELSE 1

\* next((r for r in records if r['id'] == record_id), None): the index of
\* the first match, 0 for None.
find_record(recs, record_id) ==
    IF \E i \in 1..Len(recs) : recs[i].id = record_id
    THEN CHOOSE i \in 1..Len(recs) :
            /\ recs[i].id = record_id
            /\ \A j \in 1..(i - 1) : recs[j].id # record_id
    ELSE 0

update_asks_priority(record_type) == record_type = S_MX

\* record_to_update.get('priority', '') and its truth value: an absent
\* priority gives '', which is false, and so is a priority of 0.
has_default_priority(r) == "priority" \in DOMAIN r /\ r.priority # 0

update_priority(data, r, priority_str) ==
    IF truthy(priority_str) THEN data @@ [priority |-> int_val(priority_str)]
    ELSE IF has_default_priority(r) THEN data @@ [priority |-> r.priority]
    ELSE data

update_proxied(r, proxied_input) ==
    IF truthy(lower(proxied_input)) THEN lower(proxied_input) = S_yes ELSE r.proxied

update_dns_record(zid, recs, in, resp) ==
    LET shown == display_dns_records(recs)
        p0 == Effect(<<Asked("record_id", in.record_id)>>, <<>>, <<>>, <<>>, "return")
        i == find_record(recs, in.record_id)
    IN  IF i = 0
        THEN Then(shown, Then(p0, Effect(<<>>, <<>>, <<>>, <<"Record ID not found">>, "return")))
        ELSE
        LET r == recs[i]
            record_type == or_default(in.type, r.type)
            name == or_default(in.name, r.name)
            content == or_default(in.content, r.content)
            p1 == << Asked("type", in.type), Asked("name", in.name),
                     Asked("content", in.content), Asked("ttl", in.ttl) >>
        IN  IF truthy(in.ttl) /\ ~int_ok(in.ttl)
            THEN Then(shown, Then(p0, Effect(p1, <<>>, <<>>, <<>>, "raise")))
            ELSE
            LET ttl == IF truthy(in.ttl) THEN int_val(in.ttl) ELSE r.ttl
                data0 == [type |-> record_type, name |-> name,
                          content |-> content, ttl |-> ttl]
                mx == update_asks_priority(record_type)
                p2 == IF mx THEN Append(p1, Asked("priority", in.priority)) ELSE p1
            IN  IF mx /\ truthy(in.priority) /\ ~int_ok(in.priority)
                THEN Then(shown, Then(p0, Effect(p2, <<>>, <<>>, <<>>, "raise")))
                ELSE
                LET data1 == IF mx THEN update_priority(data0, r, in.priority) ELSE data0
                    data == data1 @@ [proxied |-> update_proxied(r, in.proxy)]
                    p3 == Append(p2, Asked("proxy", in.proxy))
                IN  Then(shown, Then(p0, Then(Effect(p3, <<>>, <<>>, <<>>, "return"),
                         write_outcome(PutRequest(zid, in.record_id, data), resp,
                                       "Successfully updated", "Error updating"))))

(***************************************************************************)
(* delete_dns_record.                                                      *)
(***************************************************************************)
id_in_records(recs, record_id) == \E i \in 1..Len(recs) : recs[i].id = record_id

\* Variant: the confirmation compared as typed, without lower().
delete_confirmed_as_typed(confirmation_input) == confirmation_input = S_yes

delete_confirmed(confirmation_input) == lower(confirmation_input) = S_yes

delete_dns_record(zid, recs, in, resp) ==
    LET shown == display_dns_records(recs)
        p0 == Effect(<<Asked("record_id", in.record_id)>>, <<>>, <<>>, <<>>, "return")
    IN  IF ~id_in_records(recs, in.record_id)
        THEN Then(shown, Then(p0, Effect(<<>>, <<>>, <<>>, <<"Record ID not found">>, "return")))
        ELSE
        LET p1 == Effect(<<Asked("confirmation", in.confirmation)>>, <<>>, <<>>, <<>>, "return")
        IN  IF delete_confirmed(in.confirmation)
            THEN Then(shown, Then(p0, Then(p1,
                      delete_outcome(DeleteRequest(zid, in.record_id), resp))))
            ELSE Then(shown, Then(p0, Then(p1,
                      Effect(<<>>, <<>>, <<>>, <<"Deletion cancelled">>, "return"))))

(***************************************************************************)
(* What the user may type.                                                 *)
(***************************************************************************)
Choices == { <<"1">>, <<"2">>, <<"3">>, <<"4">>, <<"5">>, <<"6">>, <<>>, <<"1", "1">> }
IdInputs == { <<"r", "1">>, <<"r", "2">>, <<"r", "3">>, <<"r", "4">>, <<"r", "9">>, <<>> }
AddTypeInputs == { <<"A">>, <<"a">>, S_MX, <<"m", "x">>, <<>> }
UpdateTypeInputs == { <<>>, <<"A">>, S_MX, <<"m", "x">> }
NameInputs == { <<>>, <<"n">> }
ContentInputs == { <<>>, <<"c">> }
TtlInputs == { <<>>, <<"6", "0">>, <<"x">> }
PriorityInputs == { <<>>, <<"5">>, <<"x">> }
ProxyInputs == { <<>>, S_yes, <<"Y", "E", "S">>, <<"n", "o">> }
ConfirmInputs == { <<>>, S_yes, <<"Y", "E", "S">>, <<"Y", "e", "s">>, <<"n", "o">>,
                   <<"y">>, <<" ", "y", "e", "s">> }
EnvValues == { "unset", "empty", "set" }

\* The truth value of an environment value: None and "" are false.
env_truthy(v) == v = "set"

(***************************************************************************)
(* The program.                                                            *)
(***************************************************************************)
Init ==
    /\ CF_EMAIL \in EnvValues
    /\ CF_API_KEY \in EnvValues
    /\ CF_DOMAIN \in EnvValues
    /\ pc = "start"
    /\ exit_code = 0
    /\ zone_id = <<>>
    /\ records = <<>>
    /\ choice = <<>>
    /\ prompts = <<>>
    /\ requests = <<>>
    /\ responses = <<>>
    /\ printed = <<>>

\* What a finished call leaves: the log extended, and the process at `next`
\* unless the call raised (traceback, exit status 1) or called sys.exit(1).
Finish(eff, next) ==
    /\ prompts' = prompts \o eff.prompts
    /\ requests' = requests \o eff.requests
    /\ responses' = responses \o eff.responses
    /\ printed' = printed \o eff.printed
    /\ pc' = CASE eff.outcome = "return" -> next
               [] eff.outcome = "raise" -> "crashed"
               [] eff.outcome = "exit" -> "exited"
    /\ exit_code' = IF eff.outcome = "return" THEN exit_code ELSE 1

\* Variant: the check forgets CF_DOMAIN.
credentials_present_without_domain == env_truthy(CF_EMAIL) /\ env_truthy(CF_API_KEY)

credentials_present == env_truthy(CF_EMAIL) /\ env_truthy(CF_API_KEY) /\ env_truthy(CF_DOMAIN)

\* main, lines 183-185.
CheckCredentials ==
    /\ pc = "start"
    /\ IF credentials_present
       THEN Finish(Effect(<<>>, <<>>, <<>>, <<>>, "return"), "resolve")
       ELSE Finish(Effect(<<>>, <<>>, <<>>, <<"Missing credentials">>, "exit"), "resolve")
    /\ UNCHANGED <<CF_EMAIL, CF_API_KEY, CF_DOMAIN, zone_id, records, choice>>

\* main, line 187.
ResolveZone ==
    /\ pc = "resolve"
    /\ \E resp \in ZoneResponses :
          LET z == get_zone_id(resp)
          IN  /\ zone_id' = z.value
              /\ Finish(z.eff, "menu")
    /\ UNCHANGED <<CF_EMAIL, CF_API_KEY, CF_DOMAIN, records, choice>>

\* main, lines 190-196: a new iteration of the loop starts and reads the choice.
ReadChoice ==
    /\ pc = "menu"
    /\ \E c \in Choices : choice' = c
    /\ pc' = "chosen"
    /\ prompts' = <<>>
    /\ requests' = <<>>
    /\ responses' = <<>>
    /\ printed' = <<>>
    /\ UNCHANGED <<CF_EMAIL, CF_API_KEY, CF_DOMAIN, exit_code, zone_id, records>>

fetching_choice(c) == c \in { <<"1">>, <<"3">>, <<"4">> }

\* Variant: a snapshot already held is kept instead of the fetched one.
main_records_cached(old, fetched) == IF old # <<>> THEN old ELSE fetched

\* The assignment records = get_dns_records(zone_id) of lines 199, 205, 209.
main_records(old, fetched) == fetched

FetchRecords ==
    /\ pc = "chosen"
    /\ fetching_choice(choice)
    /\ \E resp \in ListResponses :
          LET f == get_dns_records(zone_id, resp)
          IN  /\ records' = main_records(records, f.value)
              /\ Finish(f.eff, "fetched")
    /\ UNCHANGED <<CF_EMAIL, CF_API_KEY, CF_DOMAIN, zone_id, choice>>

Nothing == Effect(<<>>, <<>>, <<>>, <<>>, "return")

\* main, lines 200-201.
ListBranch ==
    /\ pc = "fetched"
    /\ choice = <<"1">>
    /\ Finish(IF records # <<>> THEN display_dns_records(records) ELSE Nothing, "menu")
    /\ UNCHANGED <<CF_EMAIL, CF_API_KEY, CF_DOMAIN, zone_id, records, choice>>

\* main, line 203.
AddBranch ==
    /\ pc = "chosen"
    /\ choice = <<"2">>
    /\ \E t \in AddTypeInputs, n \in NameInputs, c \in ContentInputs, l \in TtlInputs,
          q \in PriorityInputs, x \in ProxyInputs, resp \in WriteResponses :
          Finish(add_dns_record(zone_id,
                    [type |-> t, name |-> n, content |-> c, ttl |-> l,
                     priority |-> q, proxy |-> x], resp), "menu")
    /\ UNCHANGED <<CF_EMAIL, CF_API_KEY, CF_DOMAIN, zone_id, records, choice>>

\* main, lines 206-207.
UpdateBranch ==
    /\ pc = "fetched"
    /\ choice = <<"3">>
    /\ IF records = <<>>
       THEN Finish(Nothing, "menu")
       ELSE \E i \in IdInputs, t \in UpdateTypeInputs, n \in NameInputs,
               c \in ContentInputs, l \in TtlInputs, q \in PriorityInputs,
               x \in ProxyInputs, resp \in WriteResponses :
               Finish(update_dns_record(zone_id, records,
                         [record_id |-> i, type |-> t, name |-> n, content |-> c,
                          ttl |-> l, priority |-> q, proxy |-> x], resp), "menu")
    /\ UNCHANGED <<CF_EMAIL, CF_API_KEY, CF_DOMAIN, zone_id, records, choice>>

\* main, lines 210-211.
DeleteBranch ==
    /\ pc = "fetched"
    /\ choice = <<"4">>
    /\ IF records = <<>>
       THEN Finish(Nothing, "menu")
       ELSE \E i \in IdInputs, k \in ConfirmInputs, resp \in WriteResponses :
               Finish(delete_dns_record(zone_id, records,
                         [record_id |-> i, confirmation |-> k], resp), "menu")
    /\ UNCHANGED <<CF_EMAIL, CF_API_KEY, CF_DOMAIN, zone_id, records, choice>>

\* main, lines 212-214: break leaves the loop and main returns, exit status 0.
ExitBranch ==
    /\ pc = "chosen"
    /\ choice = <<"5">>
    /\ pc' = "exited"
    /\ exit_code' = 0
    /\ printed' = Append(printed, "Exiting")
    /\ UNCHANGED <<CF_EMAIL, CF_API_KEY, CF_DOMAIN, zone_id, records, choice,
                   prompts, requests, responses>>

\* main, lines 215-216.
InvalidBranch ==
    /\ pc = "chosen"
    /\ choice \notin { <<"1">>, <<"2">>, <<"3">>, <<"4">>, <<"5">> }
    /\ Finish(Effect(<<>>, <<>>, <<>>, <<"Invalid choice">>, "return"), "menu")
    /\ UNCHANGED <<CF_EMAIL, CF_API_KEY, CF_DOMAIN, zone_id, records, choice>>

Next ==
    \/ CheckCredentials
    \/ ResolveZone
    \/ ReadChoice
    \/ FetchRecords
    \/ ListBranch
    \/ AddBranch
    \/ UpdateBranch
    \/ DeleteBranch
    \/ ExitBranch
    \/ InvalidBranch

Spec == Init /\ [][Next]_vars

(***************************************************************************)
(* Vocabulary of the properties.                                           *)
(***************************************************************************)
Sent(m) == {i \in 1..Len(requests) : requests[i].method = m}
Writes == Sent("POST") \cup Sent("PUT") \cup Sent("DELETE")
Fetches == {i \in Sent("GET") : requests[i].path = "dns_records"}
Answers(what) == {prompts[i].answer : i \in {j \in 1..Len(prompts) : prompts[j].prompt = what}}
WasAsked(what) == Answers(what) # {}
AnswerTo(what) == CHOOSE a \in Answers(what) : TRUE
Ids(recs) == {recs[i].id : i \in 1..Len(recs)}
WithId(recs, rid) == CHOOSE r \in {recs[i] : i \in 1..Len(recs)} : r.id = rid

\* The branch chosen in this iteration has run to its end.
BranchOver == pc \in {"menu", "crashed", "exited"}
Over(c) == choice = c /\ BranchOver

YesSpellings ==
    { <<a, b, c>> : a \in {"y", "Y"}, b \in {"e", "E"}, c \in {"s", "S"} }
MXSpellings == { <<a, b>> : a \in {"m", "M"}, b \in {"x", "X"} }

(***************************************************************************)
(* C1.  DELETE                                                             *)
(***************************************************************************)
\* C1: once the DELETE branch is over, a DELETE request for the entered id
\* has been sent if and only if the id is in the fetched snapshot and the
\* confirmation is a spelling of "yes" in any mix of cases; then it is the
\* only request after the fetch; otherwise the fetch is the only request of
\* the iteration; in both cases the loop is back at the menu.
C1_DeleteIffConfirmed ==
    Over(<<"4">>) /\ records # <<>> =>
        LET confirmed == /\ WasAsked("record_id")
                         /\ AnswerTo("record_id") \in Ids(records)
                         /\ WasAsked("confirmation")
                         /\ AnswerTo("confirmation") \in YesSpellings
        IN  /\ pc = "menu"
            /\ confirmed =>
                 requests = << RecordsRequest(zone_id),
                               DeleteRequest(zone_id, AnswerTo("record_id")) >>
            /\ ~confirmed => requests = << RecordsRequest(zone_id) >>

C1_Witness ==
    /\ Over(<<"4">>)
    /\ Sent("DELETE") # {}
    /\ AnswerTo("confirmation") = <<"Y", "E", "S">>

(***************************************************************************)
(* C2.  Unknown record id                                                  *)
(***************************************************************************)
\* C2: once an UPDATE or DELETE branch is over in which the entered id is
\* the id of no record of the snapshot, "Record ID not found" was printed,
\* no PUT and no DELETE was sent, the id was the only thing asked, and the
\* loop is back at the menu.
C2_UnknownIdNoWrite ==
    /\ (Over(<<"3">>) \/ Over(<<"4">>))
    /\ WasAsked("record_id")
    /\ AnswerTo("record_id") \notin Ids(records)
    => /\ printed = << "table", "Record ID not found" >>
       /\ Writes = {}
       /\ prompts = << Asked("record_id", AnswerTo("record_id")) >>
       /\ pc = "menu"

C2_Witness ==
    /\ Over(<<"3">>)
    /\ WasAsked("record_id")
    /\ AnswerTo("record_id") \notin Ids(records)
    /\ AnswerTo("record_id") # <<>>

(***************************************************************************)
(* C3.  Body of a create                                                   *)
(***************************************************************************)
\* C3: whenever the ADD branch sent its POST, the body has exactly the keys
\* type, name, content, ttl, proxied, plus priority exactly when the type
\* entered is a spelling of "MX" in any mix of cases; ttl is 1 when the ttl
\* answer is empty; proxied is true only when the proxy answer is a spelling
\* of "yes" in any mix of cases.
C3_CreateBody ==
    Over(<<"2">>) /\ Sent("POST") # {} =>
        LET body == requests[CHOOSE i \in Sent("POST") : TRUE].body
            mx == AnswerTo("type") \in MXSpellings
        IN  /\ DOMAIN body = {"type", "name", "content", "ttl", "proxied"}
                                \cup (IF mx THEN {"priority"} ELSE {})
            /\ AnswerTo("ttl") = <<>> => body.ttl = 1
            /\ body.proxied = TRUE => AnswerTo("proxy") \in YesSpellings

C3_Witness ==
    /\ Over(<<"2">>)
    /\ Sent("POST") # {}
    /\ AnswerTo("type") = <<"m", "x">>
    /\ AnswerTo("ttl") = <<>>
    /\ requests[1].body.priority = 5
    /\ requests[1].body.proxied = FALSE

(***************************************************************************)
(* C4.  Update with every prompt left blank                                *)
(***************************************************************************)
AllBlank == \A i \in 2..Len(prompts) : prompts[i].answer = <<>>
BodyKeys == {"type", "name", "content", "ttl", "proxied", "priority"}
FieldsOf(r) == [k \in DOMAIN r \cap BodyKeys |-> r[k]]

\* C4: whenever the UPDATE branch sent its PUT after every prompt but the id
\* was answered with an empty line, the body equals the fields of the record
\* being updated: type, name, content, ttl, proxied, and priority when the
\* record has one.
C4_BlankUpdateIsIdentity ==
    Over(<<"3">>) /\ Sent("PUT") # {} /\ AllBlank =>
        requests[2].body = FieldsOf(WithId(records, AnswerTo("record_id")))

(***************************************************************************)
(* C5.  Startup failures                                                   *)
(***************************************************************************)
\* C5: when a configuration value is absent the process ends with exit code
\* 1 having sent no request at all; when the zone lookup fails or returns no
\* zone, the process ends with exit code 1 and the lookup is the only
\* request it ever sent; the menu is reached only with all three
\* configuration values and a resolved zone.
C5_StartupFatal ==
    /\ ~(CF_EMAIL = "set" /\ CF_API_KEY = "set" /\ CF_DOMAIN = "set") /\ pc # "start"
            => pc = "exited" /\ exit_code = 1 /\ requests = <<>>
    /\ \A i \in 1..Len(requests) :
          requests[i].path = "zones"
          /\ (responses[i].kind # "ok" \/ Len(responses[i].result) = 0)
            => pc = "exited" /\ exit_code = 1 /\ requests = << ZonesRequest >>
    /\ pc \in {"menu", "chosen", "fetched"}
            => CF_EMAIL = "set" /\ CF_API_KEY = "set" /\ CF_DOMAIN = "set"
               /\ zone_id \in ZoneIds

C5_Witness ==
    /\ pc = "exited"
    /\ exit_code = 1
    /\ requests = << ZonesRequest >>
    /\ responses[1].kind = "ok"

(***************************************************************************)
(* C6.  Failed writes                                                      *)
(***************************************************************************)
\* C6: whenever the write request of a branch that is over failed, with an
\* error response or with no response at all, a message was printed after
\* the request and the loop is back at the menu.
C6_WriteFailureNotFatal ==
    BranchOver =>
        \A i \in Writes :
            responses[i].kind # "ok" =>
                /\ pc = "menu"
                /\ \E j \in 1..Len(printed) :
                      printed[j] \in {"Error adding", "Error updating", "Error deleting"}

(***************************************************************************)
(* C7.  Failed or empty fetch                                              *)
(***************************************************************************)
\* C7: when the record fetch of an iteration failed, the error was printed,
\* records is empty and the process is still running; and once an UPDATE or
\* DELETE branch is over with records empty, nothing was asked, the fetch is
\* the only request, and the loop is back at the menu.
C7_EmptyFetch ==
    /\ \A i \in Fetches :
          responses[i].kind # "ok" =>
             /\ printed[1] = "API Request Error"
             /\ records = <<>>
             /\ pc \in {"fetched", "menu"}
    /\ (Over(<<"3">>) \/ Over(<<"4">>)) /\ records = <<>> =>
             /\ prompts = <<>>
             /\ requests = << RecordsRequest(zone_id) >>
             /\ pc = "menu"

C7_Witness ==
    /\ Over(<<"3">>)
    /\ pc = "menu"
    /\ responses[1].kind = "no_response"

(***************************************************************************)
(* C8.  At most one write per iteration                                    *)
(***************************************************************************)
\* C8: in every iteration of the loop at most one write request is sent, a
\* POST only under choice 2, a PUT only under choice 3, a DELETE only under
\* choice 4; so a failed write is not sent again.
C8_OneWritePerIteration ==
    /\ Cardinality(Writes) <= 1
    /\ Sent("POST") # {} => choice = <<"2">>
    /\ Sent("PUT") # {} => choice = <<"3">>
    /\ Sent("DELETE") # {} => choice = <<"4">>

C8_Witness ==
    /\ Over(<<"3">>)
    /\ pc = "menu"
    /\ Sent("PUT") = {2}
    /\ responses[2].kind = "http_error"

(***************************************************************************)
(* C9.  Fresh snapshot                                                     *)
(***************************************************************************)
Fetched == IF responses[1].kind = "ok" THEN responses[1].result ELSE <<>>

\* C9: under choices 1, 3 and 4 the first and only GET of the iteration is
\* the record fetch for the resolved zone, and records is what that fetch
\* returned; the id lookup of UPDATE and DELETE and the defaults of UPDATE
\* are those of that fetch's answer; under choice 2 no GET is sent.
C9_FreshSnapshot ==
    /\ choice \in {<<"1">>, <<"3">>, <<"4">>} /\ pc # "chosen" =>
          /\ Sent("GET") = {1}
          /\ requests[1] = RecordsRequest(zone_id)
          /\ records = Fetched
    /\ (Over(<<"3">>) \/ Over(<<"4">>)) /\ WasAsked("record_id") =>
          (("Record ID not found" \in {printed[j] : j \in 1..Len(printed)})
              <=> AnswerTo("record_id") \notin Ids(Fetched))
    /\ Over(<<"3">>) /\ Sent("PUT") # {} =>
          LET r == WithId(Fetched, AnswerTo("record_id"))
              body == requests[2].body
          IN  /\ AnswerTo("type") = <<>> => body.type = r.type
              /\ AnswerTo("name") = <<>> => body.name = r.name
              /\ AnswerTo("content") = <<>> => body.content = r.content
              /\ AnswerTo("ttl") = <<>> => body.ttl = r.ttl
              /\ AnswerTo("proxy") = <<>> => body.proxied = r.proxied
    /\ choice = <<"2">> => Sent("GET") = {}

C9_Witness ==
    /\ Over(<<"3">>)
    /\ Sent("PUT") # {}
    /\ AnswerTo("content") = <<>>
    /\ requests[2].body.content = <<"3", ".", "4">>

(***************************************************************************)
(* C10.  Priority of an update                                             *)
(***************************************************************************)
\* C10: whenever the UPDATE branch sent its PUT, the body has a priority
\* exactly when its type is MX; and when the type is MX, an empty priority
\* answer keeps the record's priority and a non-empty one replaces it with
\* the number entered.
C10_UpdatePriority ==
    Over(<<"3">>) /\ Sent("PUT") # {} =>
        LET r == WithId(records, AnswerTo("record_id"))
            body == requests[2].body
        IN  /\ "priority" \in DOMAIN body <=> body.type = S_MX
            /\ body.type = S_MX /\ AnswerTo("priority") = <<>> /\ "priority" \in DOMAIN r
                  => "priority" \in DOMAIN body /\ body.priority = r.priority
            /\ body.type = S_MX /\ AnswerTo("priority") = <<"5">>
                  => "priority" \in DOMAIN body /\ body.priority = 5

====
